---- MODULE Spec2Model ----
(***************************************************************************)
(* A model of the transaction core of edr: the canonical (RLP) codec, the  *)
(* content hash and its single-assignment cache, signing and signer        *)
(* recovery of the replay-protected legacy kind (Eip155) and of the blob   *)
(* kind (Eip4844), and the lazily loaded receipts of a RemoteBlock.        *)
(*                                                                         *)
(* Machine integers are kept at their width: a u64 is its eight big-endian *)
(* bytes and a U256 its thirty-two, so that the arithmetic on v and on the *)
(* chain id overflows exactly where the program's does.                    *)
(***************************************************************************)
EXTENDS Integers, Sequences, FiniteSets, TLC

VARIABLES
    \* ---- hash cache of one shared signed transaction (OnceLock<B256>) ----
    tx,          \* the signed transaction whose hash() is called
    cell,        \* the OnceLock: [state: "empty" | "running" | "set", value]
    hpc,         \* per thread: position inside hash()
    hret,        \* per thread: sequence of digests hash() has returned
    writes,      \* number of writes to the cell so far
    \* ---- RemoteBlock.receipts (OnceLock<Vec<Arc<BlockReceipt>>>) ----
    receipts,    \* the OnceLock of the block: "unset" or a receipt list
    rpc,         \* per thread: position inside transaction_receipts()
    fetched,     \* per thread: the receipts the RPC client returned
    rret,        \* per thread: sequence of results transaction_receipts() returned
    requests,    \* number of requests made to the RPC client
    panicked,    \* TRUE once an expect()/overflow check has aborted
    \* ---- codec, signing and recovery ----
    overflow_checks, \* build profile: TRUE = overflow panics, FALSE = it wraps
    request,     \* the unsigned request that is signed
    signed,      \* the signed transaction in hand (or NoTx), with its origin
    wire,        \* the bytes handed to decode
    outcome,     \* what the last operation returned
    \* ---- RawTrace (edr_napi) ----
    messages,    \* inner.messages: the recorded Before / Step / After messages
    old_out,     \* what old_trace() returned, or NotCalled
    new_out      \* what trace() returned, or NotCalled

hashVars == <<tx, cell, hpc, hret, writes>>
blockVars == <<receipts, rpc, fetched, rret, requests>>
txVars == <<overflow_checks, request, signed, wire, outcome>>
traceVars == <<messages, old_out, new_out>>
vars == <<hashVars, blockVars, txVars, traceVars, panicked>>

-----------------------------------------------------------------------------
(* Bytes and fixed-width unsigned integers                                  *)

Zeros(n) == [i \in 1..n |-> 0]

\* The w big-endian bytes of a small natural number n (n < 2^24).
BE(n, w) == [i \in 1..w |-> IF w - i > 2 THEN 0 ELSE (n \div (256 ^ (w - i))) % 256]

U64Bytes == 8
U256Bytes == 32
AddressBytes == 20

U64Of(n) == BE(n, U64Bytes)
U256Of(n) == BE(n, U256Bytes)

\* Carry into byte i of a + b (bytes i+1..w are less significant).
RECURSIVE CarryInto(_, _, _)
CarryInto(a, b, i) ==
    IF i = Len(a) THEN 0
    ELSE (a[i + 1] + b[i + 1] + CarryInto(a, b, i + 1)) \div 256

\* a + b on w-byte integers, with the overflow flag of the addition.
AddWide(a, b) ==
    [val |-> [i \in 1..Len(a) |-> (a[i] + b[i] + CarryInto(a, b, i)) % 256],
     overflow |-> a[1] + b[1] + CarryInto(a, b, 1) > 255]

\* Borrow into byte i of a - b.
RECURSIVE BorrowInto(_, _, _)
BorrowInto(a, b, i) ==
    IF i = Len(a) THEN 0
    ELSE IF a[i + 1] - b[i + 1] - BorrowInto(a, b, i + 1) < 0 THEN 1 ELSE 0

\* a - b on w-byte integers, with the overflow (borrow) flag.
SubWide(a, b) ==
    [val |-> [i \in 1..Len(a) |-> (a[i] - b[i] - BorrowInto(a, b, i) + 256) % 256],
     overflow |-> a[1] - b[1] - BorrowInto(a, b, 1) < 0]

\* a / 2 on w-byte integers.
HalfWide(a) ==
    [i \in 1..Len(a) |->
        (a[i] \div 2) + (IF i > 1 THEN (a[i - 1] % 2) * 128 ELSE 0)]

\* a < b on w-byte integers.
LessWide(a, b) == SubWide(a, b).overflow

\* The bytes of a sequence from position i on.
Drop(s, n) == SubSeq(s, n + 1, Len(s))
Take(s, n) == SubSeq(s, 1, n)

RECURSIVE TrimLeadingZeros(_)
TrimLeadingZeros(s) ==
    IF Len(s) = 0 THEN << >>
    ELSE IF s[1] # 0 THEN s
    ELSE TrimLeadingZeros(Tail(s))

\* Left-pad a byte string with zeros to width w.
LeftPad(s, w) == [i \in 1..w |-> IF i <= w - Len(s) THEN 0 ELSE s[i - (w - Len(s))]]

\* The value of a byte string of at most three significant bytes.
RECURSIVE NatOf(_)
NatOf(s) == IF Len(s) = 0 THEN 0 ELSE NatOf(Take(s, Len(s) - 1)) * 256 + s[Len(s)]

-----------------------------------------------------------------------------
(* RLP encoding (alloy_rlp::Encodable)                                      *)

EMPTY_STRING_CODE == 128
EMPTY_LIST_CODE == 192

\* alloy_rlp::Header::encode: the prefix of a string or list of payload_length bytes.
HeaderEncode(list, payload_length) ==
    LET code == IF list THEN EMPTY_LIST_CODE ELSE EMPTY_STRING_CODE IN
    IF payload_length < 56 THEN <<code + payload_length>>
    ELSE LET be == TrimLeadingZeros(BE(payload_length, 8)) IN
         <<code + 55 + Len(be)>> \o be

\* Encodable for u64 and U256: the big-endian bytes without leading zeros.
UintEncode(x) ==
    LET be == TrimLeadingZeros(x) IN
    IF Len(be) = 0 THEN <<EMPTY_STRING_CODE>>
    ELSE IF Len(be) = 1 /\ be[1] < EMPTY_STRING_CODE THEN be
    ELSE <<EMPTY_STRING_CODE + Len(be)>> \o be

\* Encodable for Bytes.
BytesEncode(b) ==
    IF Len(b) = 1 /\ b[1] < EMPTY_STRING_CODE THEN b
    ELSE HeaderEncode(FALSE, Len(b)) \o b

\* Encodable for Address and B256 (fixed-size byte strings).
FixedBytesEncode(b) == <<EMPTY_STRING_CODE + Len(b)>> \o b

\* Encodable for bool.
BoolEncode(b) == IF b THEN <<1>> ELSE <<EMPTY_STRING_CODE>>

\* TxKind: Call(address) or Create.
Call(to) == [call |-> TRUE, to |-> to]
Create == [call |-> FALSE, to |-> Zeros(AddressBytes)]

\* Encodable for TxKind: the recipient, or the empty string for Create.
KindEncode(kind) ==
    IF kind.call THEN FixedBytesEncode(kind.to) ELSE <<EMPTY_STRING_CODE>>

\* The concatenation of a sequence of byte strings.
RECURSIVE Concat(_)
Concat(ss) == IF Len(ss) = 0 THEN << >> ELSE Head(ss) \o Concat(Tail(ss))

\* Encodable for a list: header, then the items' encodings.
ListEncode(items) ==
    LET payload == Concat(items) IN HeaderEncode(TRUE, Len(payload)) \o payload

\* Encodable for Vec<B256>.
B256ListEncode(hs) == ListEncode([i \in 1..Len(hs) |-> FixedBytesEncode(hs[i])])

\* Encodable for AccessList: a list of [address, [storage keys]] items.
AccessListEncode(al) ==
    ListEncode([i \in 1..Len(al) |->
        ListEncode(<<FixedBytesEncode(al[i].address),
                     B256ListEncode(al[i].storage_keys)>>)])

-----------------------------------------------------------------------------
(* The hashing primitive.  keccak256 is an external collaborator: it is     *)
(* modelled as a positional checksum of all the bytes, placed in the low    *)
(* bytes of a 32-byte digest.                                               *)

\* The checksum of bytes[lo..hi] and the weight of a block of that length.
RECURSIVE KeccakFold(_, _, _)
KeccakFold(bytes, lo, hi) ==
    IF lo > hi THEN [h |-> 0, p |-> 1]
    ELSE IF lo = hi THEN [h |-> bytes[lo] + 1, p |-> 257]
    ELSE LET mid == (lo + hi) \div 2
             left == KeccakFold(bytes, lo, mid)
             right == KeccakFold(bytes, mid + 1, hi)
         IN [h |-> (left.h * right.p + right.h) % 46337,
             p |-> (left.p * right.p) % 46337]

keccak256(bytes) ==
    LET f == KeccakFold(bytes, 1, Len(bytes)) IN U256Of((7 * f.p + f.h) % 46337)

-----------------------------------------------------------------------------
(* Results                                                                  *)

Ok(v) == [ok |-> TRUE, val |-> v, err |-> "none"]
Err(e) == [ok |-> FALSE, val |-> << >>, err |-> e]

\* OnceLock::new(): the cell of a hash cache that was never asked.
EmptyCell == [state |-> "empty", value |-> << >>]

\* A OnceLock that holds a value.
SetCell(value) == [state |-> "set", value |-> value]

-----------------------------------------------------------------------------
(* The elliptic-curve sign/recover primitive (signature module of edr_eth   *)
(* over k256).  The curve is abstracted to the additive group Z_q of a      *)
(* small prime q with generator 1: a point is a group element e, r is its  *)
(* coordinate and the recovery id its parity; recovering with the other id  *)
(* selects the negated point q - e, as the other y-parity does on the curve.*)

CurveOrder == 251

\* Multiplicative inverse modulo the group order.
InvMod(a) == CHOOSE x \in 1..(CurveOrder - 1) : (a * x) % CurveOrder = 1

\* The scalar a 32-byte digest stands for.
DigestScalar(hash) == NatOf(Drop(hash, U256Bytes - 3)) % CurveOrder

\* public_key_to_address: the last 20 bytes of the hash of the public key.
public_key_to_address(secret) == Drop(keccak256(<<4, secret>>), U256Bytes - AddressBytes)

\* The deterministic nonce of a signature: the first usable one from a
\* value derived from digest and key.
RECURSIVE NonceFrom(_, _, _)
NonceFrom(h, secret, e) ==
    IF (h + e * secret) % CurveOrder # 0 THEN e
    ELSE NonceFrom(h, secret, 1 + (e % (CurveOrder - 1)))

\* Signature::new(hash, secret_key): {r, s, v} with v = 27 + recovery id.
Signature_new(hash, secret) ==
    LET h == DigestScalar(hash)
        e == NonceFrom(h, secret, 1 + ((h * 3 + secret * 5) % (CurveOrder - 1)))
        s == (InvMod(e) * (h + e * secret)) % CurveOrder
    IN [r |-> U256Of(e), s |-> U256Of(s), v |-> U64Of(27 + (e % 2))]

\* normalize_recovery_id(v): 0/1 from a raw, a legacy or an EIP-155 v; 4 if none.
normalize_recovery_id(v) ==
    IF v = U64Of(0) \/ v = U64Of(27) THEN 0
    ELSE IF v = U64Of(1) \/ v = U64Of(28) THEN 1
    ELSE IF ~LessWide(v, U64Of(35)) THEN (v[U64Bytes] + 1) % 2
    ELSE 4

\* Recovery of the signer address from scalars r, s, a recovery id and a digest.
RecoverAddress(r, s, recovery_id, hash) ==
    LET rn == NatOf(Drop(r, U256Bytes - 3))
        sn == NatOf(Drop(s, U256Bytes - 3))
        inRange(x, n) == Take(x, U256Bytes - 3) = Zeros(U256Bytes - 3)
                         /\ n > 0 /\ n < CurveOrder
    IN IF recovery_id \notin {0, 1} \/ ~inRange(r, rn) \/ ~inRange(s, sn)
       THEN Err("InvalidSignature")
       ELSE LET e == IF rn % 2 = recovery_id THEN rn ELSE CurveOrder - rn
                h == DigestScalar(hash)
                k == (InvMod(rn) * ((sn * e + CurveOrder - h) % CurveOrder)) % CurveOrder
            IN IF k = 0 THEN Err("InvalidSignature")
               ELSE Ok(public_key_to_address(k))

\* Signature::recover(hash) of a legacy-style signature {r, s, v}.
Signature_recover(sig, hash) ==
    RecoverAddress(sig.r, sig.s, normalize_recovery_id(sig.v), hash)

\* make_fake_signature::<V>(address): r and s carry the address, v = V + 27.
make_fake_signature(V, address) ==
    [r |-> LeftPad(address, U256Bytes), s |-> LeftPad(address, U256Bytes),
     v |-> U64Of(V + 27)]

\* recover_fake_signature(signature): the address carried by r.
recover_fake_signature(sig) == Drop(sig.r, U256Bytes - AddressBytes)

-----------------------------------------------------------------------------
(* transaction::request::Eip155: the unsigned replay-protected request      *)

\* alloy_rlp::length_of_length: the size of the header of a payload.
length_of_length(payload_length) ==
    IF payload_length < 56 THEN 1
    ELSE 1 + Len(TrimLeadingZeros(BE(payload_length, 8)))

\* Encodable::length for u64 and U256.
UintLength(x) ==
    IF Len(TrimLeadingZeros(x)) = 0 THEN 1
    ELSE IF Len(TrimLeadingZeros(x)) = 1 /\ x[Len(x)] < EMPTY_STRING_CODE THEN 1
    ELSE 1 + Len(TrimLeadingZeros(x))

\* Encodable::length for Bytes.
BytesLength(b) ==
    IF Len(b) = 1 /\ b[1] < EMPTY_STRING_CODE THEN 1
    ELSE Len(b) + length_of_length(Len(b))

\* Encodable::length for TxKind.
KindLength(kind) == IF kind.call THEN 1 + AddressBytes ELSE 1

\* The payload length that leaves out the two trailing items.
rlp_payload_length_fields_only(req) ==
    UintLength(req.nonce) + UintLength(req.gas_price) + UintLength(req.gas_limit)
    + KindLength(req.kind) + UintLength(req.value) + BytesLength(req.input)
    + UintLength(req.chain_id)

\* request::Eip155::rlp_payload_length
rlp_payload_length(req) ==
    UintLength(req.nonce) + UintLength(req.gas_price) + UintLength(req.gas_limit)
    + KindLength(req.kind) + UintLength(req.value) + BytesLength(req.input)
    + UintLength(req.chain_id) + 2

\* impl Encodable for request::Eip155, length()
request_Eip155_length(req) ==
    rlp_payload_length(req) + length_of_length(rlp_payload_length(req))

\* impl Encodable for request::Eip155, encode(): the header with the
\* computed payload length, the seven fields and two empty items.
request_Eip155_encode(req) ==
    HeaderEncode(TRUE, rlp_payload_length(req))
    \o UintEncode(req.nonce) \o UintEncode(req.gas_price)
    \o UintEncode(req.gas_limit) \o KindEncode(req.kind)
    \o UintEncode(req.value) \o BytesEncode(req.input)
    \o UintEncode(req.chain_id)
    \o UintEncode(U64Of(0)) \o UintEncode(U64Of(0))

\* request::Eip155::hash
request_Eip155_hash(req) == keccak256(request_Eip155_encode(req))

\* request::Eip155::v_value_adjustment: chain_id * 2 + 35 - 27 in u64.
v_value_adjustment(req) ==
    LET twice == AddWide(req.chain_id, req.chain_id)
        plus == AddWide(twice.val, U64Of(35))
        minus == SubWide(plus.val, U64Of(27))
    IN [val |-> minus.val,
        overflow |-> twice.overflow \/ plus.overflow \/ minus.overflow]

\* The signed transaction assembled from a request and a signature.
SignedFrom(req, signature, is_fake) ==
    [nonce |-> req.nonce, gas_price |-> req.gas_price, gas_limit |-> req.gas_limit,
     kind |-> req.kind, value |-> req.value, input |-> req.input,
     signature |-> signature, hash |-> EmptyCell, is_fake |-> is_fake]

\* signature.v += self.v_value_adjustment(), with the overflow flag of both steps.
AdjustV(signature, req) ==
    LET adj == v_value_adjustment(req)
        v == AddWide(signature.v, adj.val)
    IN [val |-> [signature EXCEPT !.v = v.val],
        overflow |-> adj.overflow \/ v.overflow]

\* request::Eip155::sign(self, secret_key); the cache of the result is empty.
sign(req, secret) ==
    LET adjusted == AdjustV(Signature_new(request_Eip155_hash(req), secret), req)
    IN [val |-> SignedFrom(req, adjusted.val, FALSE), overflow |-> adjusted.overflow]

\* A fake_sign that leaves the marker unset.
fake_sign_unmarked(req, address) ==
    LET adjusted == AdjustV(make_fake_signature(0, address), req)
    IN [val |-> SignedFrom(req, adjusted.val, FALSE), overflow |-> adjusted.overflow]

\* request::Eip155::fake_sign(self, address)
fake_sign(req, address) ==
    LET adjusted == AdjustV(make_fake_signature(0, address), req)
    IN [val |-> SignedFrom(req, adjusted.val, TRUE), overflow |-> adjusted.overflow]

-----------------------------------------------------------------------------
(* transaction::signed::Eip155                                              *)

\* Encodable for Signature: v, r, s in this order.
SignatureEncode(sig) == <<UintEncode(sig.v), UintEncode(sig.r), UintEncode(sig.s)>>

\* The fields written with gas_limit before nonce.
signed_Eip155_encode_reordered(t) ==
    ListEncode(<<UintEncode(t.gas_limit), UintEncode(t.gas_price),
                 UintEncode(t.nonce), KindEncode(t.kind),
                 UintEncode(t.value), BytesEncode(t.input)>>
               \o SignatureEncode(t.signature))

\* The fields and the signature, and the is_fake marker after them.
signed_Eip155_encode_with_marker(t) ==
    ListEncode(<<UintEncode(t.nonce), UintEncode(t.gas_price),
                 UintEncode(t.gas_limit), KindEncode(t.kind),
                 UintEncode(t.value), BytesEncode(t.input)>>
               \o SignatureEncode(t.signature) \o <<BoolEncode(t.is_fake)>>)

\* #[derive(RlpEncodable)] for signed::Eip155: the fields in declaration
\* order; hash and is_fake are skipped.
signed_Eip155_encode(t) ==
    ListEncode(<<UintEncode(t.nonce), UintEncode(t.gas_price),
                 UintEncode(t.gas_limit), KindEncode(t.kind),
                 UintEncode(t.value), BytesEncode(t.input)>>
               \o SignatureEncode(t.signature))

\* The closure of signed::Eip155::hash
signed_Eip155_compute_hash(t) == keccak256(signed_Eip155_encode(t))

\* signed::Eip155::chain_id: (v - 35) / 2 in u64.
chain_id(t) ==
    LET diff == SubWide(t.signature.v, U64Of(35))
    IN [val |-> HalfWide(diff.val), overflow |-> diff.overflow]

\* impl From<&signed::Eip155> for request::Eip155
request_from_signed(t) ==
    [nonce |-> t.nonce, gas_price |-> t.gas_price, gas_limit |-> t.gas_limit,
     kind |-> t.kind, value |-> t.value, input |-> t.input,
     chain_id |-> chain_id(t).val]

\* signed::Eip155::recover; overflow reports the subtraction in chain_id().
recover(t) ==
    IF t.is_fake
    THEN [val |-> Ok(recover_fake_signature(t.signature)), overflow |-> FALSE]
    ELSE [val |-> Signature_recover(t.signature,
                                    request_Eip155_hash(request_from_signed(t))),
          overflow |-> chain_id(t).overflow]

\* impl PartialEq for signed::Eip155: every field but hash and is_fake.
signed_Eip155_eq(a, b) ==
    /\ a.nonce = b.nonce
    /\ a.gas_price = b.gas_price
    /\ a.gas_limit = b.gas_limit
    /\ a.kind = b.kind
    /\ a.value = b.value
    /\ a.input = b.input
    /\ a.signature = b.signature

-----------------------------------------------------------------------------
(* RLP decoding (alloy_rlp::Decodable).  A decoder takes the buffer and     *)
(* returns the value and the rest of the buffer, or the error.              *)

Decoded(v, rest) == [ok |-> TRUE, val |-> v, err |-> "none", rest |-> rest]
Failed(e) == [ok |-> FALSE, val |-> << >>, err |-> e, rest |-> << >>]

\* The ? operator: go on with a decoded value, or return the error.
Try(r, Then(_)) == IF r.ok THEN Then(r) ELSE r

\* The errors of alloy_rlp::Error that the decoders of this model raise.
StructuralErrors ==
    {"InputTooShort", "NonCanonicalSingleByte", "NonCanonicalSize", "LeadingZero",
     "Overflow", "UnexpectedLength", "UnexpectedString", "UnexpectedList",
     "ListLengthMismatch", "Custom(invalid bool value)"}

\* The end of Header::decode: the payload must be in the buffer.
HeaderChecked(list, payload_length, rest) ==
    IF Len(rest) < payload_length THEN Failed("InputTooShort")
    ELSE Decoded([list |-> list, payload_length |-> payload_length], rest)

\* Header::decode of a long string or list, from its length bytes.
HeaderLongLength(list, be, rest) ==
    IF be[1] = 0 THEN Failed("LeadingZero")
    ELSE IF Len(be) > 3 THEN Failed("InputTooShort")
    ELSE IF NatOf(be) < 56 THEN Failed("NonCanonicalSize")
    ELSE HeaderChecked(list, NatOf(be), rest)

HeaderLong(list, len_of_len, rest) ==
    IF Len(rest) < len_of_len THEN Failed("InputTooShort")
    ELSE HeaderLongLength(list, Take(rest, len_of_len), Drop(rest, len_of_len))

\* alloy_rlp::Header::decode: val is [list, payload_length], rest starts at
\* the payload.
HeaderDecode(buf) ==
    IF Len(buf) = 0 THEN Failed("InputTooShort")
    ELSE IF buf[1] < EMPTY_STRING_CODE
         THEN Decoded([list |-> FALSE, payload_length |-> 1], buf)
    ELSE IF buf[1] <= 183 THEN
         IF buf[1] - EMPTY_STRING_CODE = 1 /\ Len(buf) < 2 THEN Failed("InputTooShort")
         ELSE IF buf[1] - EMPTY_STRING_CODE = 1 /\ buf[2] < EMPTY_STRING_CODE
              THEN Failed("NonCanonicalSingleByte")
         ELSE HeaderChecked(FALSE, buf[1] - EMPTY_STRING_CODE, Tail(buf))
    ELSE IF buf[1] <= 191 THEN HeaderLong(FALSE, buf[1] - 183, Tail(buf))
    ELSE IF buf[1] <= 247 THEN HeaderChecked(TRUE, buf[1] - EMPTY_LIST_CODE, Tail(buf))
    ELSE HeaderLong(TRUE, buf[1] - 247, Tail(buf))

\* alloy_rlp::Header::decode_bytes(buf, is_list): the payload of the next item.
HeaderDecodeBytes(buf, is_list) ==
    Try(HeaderDecode(buf), LAMBDA h :
        IF h.val.list # is_list
        THEN Failed(IF is_list THEN "UnexpectedString" ELSE "UnexpectedList")
        ELSE Decoded(Take(h.rest, h.val.payload_length),
                     Drop(h.rest, h.val.payload_length)))

\* Decodable for u64 (width 8) and U256 (width 32).
UintDecode(buf, width) ==
    Try(HeaderDecodeBytes(buf, FALSE), LAMBDA p :
        IF Len(p.val) > width THEN Failed("Overflow")
        ELSE IF Len(p.val) > 0 /\ p.val[1] = 0 THEN Failed("LeadingZero")
        ELSE Decoded(LeftPad(p.val, width), p.rest))

\* Decodable for Address and B256.
FixedBytesDecode(buf, width) ==
    Try(HeaderDecodeBytes(buf, FALSE), LAMBDA p :
        IF Len(p.val) # width THEN Failed("UnexpectedLength") ELSE p)

\* Decodable for TxKind.
KindDecode(buf) ==
    IF Len(buf) = 0 THEN Failed("InputTooShort")
    ELSE IF buf[1] = EMPTY_STRING_CODE THEN Decoded(Create, Tail(buf))
    ELSE Try(FixedBytesDecode(buf, AddressBytes), LAMBDA a : Decoded(Call(a.val), a.rest))

\* Decodable for bool.
BoolDecode(buf) ==
    Try(UintDecode(buf, 1), LAMBDA u :
        IF u.val = <<0>> THEN Decoded(FALSE, u.rest)
        ELSE IF u.val = <<1>> THEN Decoded(TRUE, u.rest)
        ELSE Failed("Custom(invalid bool value)"))

\* The items of a Vec<B256> payload, until it is consumed.
RECURSIVE B256ItemsDecode(_)
B256ItemsDecode(payload) ==
    IF Len(payload) = 0 THEN Decoded(<< >>, << >>)
    ELSE Try(FixedBytesDecode(payload, U256Bytes), LAMBDA h :
         Try(B256ItemsDecode(h.rest), LAMBDA t :
             Decoded(<<h.val>> \o t.val, << >>)))

\* Decodable for Vec<B256>.
B256ListDecode(buf) ==
    Try(HeaderDecodeBytes(buf, TRUE), LAMBDA p :
    Try(B256ItemsDecode(p.val), LAMBDA items : Decoded(items.val, p.rest)))

\* #[derive(RlpDecodable)] for AccessListItem {address, storage_keys}.
AccessListItemDecode(buf) ==
    Try(HeaderDecode(buf), LAMBDA h :
        IF ~h.val.list THEN Failed("UnexpectedString")
        ELSE Try(FixedBytesDecode(h.rest, AddressBytes), LAMBDA a :
             Try(B256ListDecode(a.rest), LAMBDA k :
                 IF Len(h.rest) - Len(k.rest) # h.val.payload_length
                 THEN Failed("ListLengthMismatch")
                 ELSE Decoded([address |-> a.val, storage_keys |-> k.val], k.rest))))

RECURSIVE AccessListItemsDecode(_)
AccessListItemsDecode(payload) ==
    IF Len(payload) = 0 THEN Decoded(<< >>, << >>)
    ELSE Try(AccessListItemDecode(payload), LAMBDA h :
         Try(AccessListItemsDecode(h.rest), LAMBDA t :
             Decoded(<<h.val>> \o t.val, << >>)))

\* Decodable for AccessList.
AccessListDecode(buf) ==
    Try(HeaderDecodeBytes(buf, TRUE), LAMBDA p :
    Try(AccessListItemsDecode(p.val), LAMBDA items : Decoded(items.val, p.rest)))

\* The decoder of one field of a derived struct, by its type.
FieldDecode(type, buf) ==
    CASE type = "u64" -> UintDecode(buf, U64Bytes)
      [] type = "U256" -> UintDecode(buf, U256Bytes)
      [] type = "Bytes" -> HeaderDecodeBytes(buf, FALSE)
      [] type = "Address" -> FixedBytesDecode(buf, AddressBytes)
      [] type = "TxKind" -> KindDecode(buf)
      [] type = "bool" -> BoolDecode(buf)
      [] type = "Vec<B256>" -> B256ListDecode(buf)
      [] type = "AccessList" -> AccessListDecode(buf)

\* The fields of a derived struct, decoded one after the other.
RECURSIVE FieldsDecode(_, _)
FieldsDecode(types, buf) ==
    IF Len(types) = 0 THEN Decoded(<< >>, buf)
    ELSE Try(FieldDecode(Head(types), buf), LAMBDA f :
         Try(FieldsDecode(Tail(types), f.rest), LAMBDA t :
             Decoded(<<f.val>> \o t.val, t.rest)))

\* #[derive(RlpDecodable)]: list header, the fields, and the length check.
StructDecode(types, buf) ==
    Try(HeaderDecode(buf), LAMBDA h :
        IF ~h.val.list THEN Failed("UnexpectedString")
        ELSE Try(FieldsDecode(types, h.rest), LAMBDA fs :
                 IF Len(h.rest) - Len(fs.rest) # h.val.payload_length
                 THEN Failed("ListLengthMismatch")
                 ELSE fs))

\* The signed::Eip155 built from its decoded fields; hash and is_fake take
\* their defaults.
Eip155FromFields(d) ==
    IF ~d.ok THEN Err(d.err)
    ELSE Ok([nonce |-> d.val[1], gas_price |-> d.val[2], gas_limit |-> d.val[3],
             kind |-> d.val[4], value |-> d.val[5], input |-> d.val[6],
             signature |-> [v |-> d.val[7], r |-> d.val[8], s |-> d.val[9]],
             hash |-> EmptyCell, is_fake |-> FALSE])

\* #[derive(RlpDecodable)] for signed::Eip155: the fields in declaration
\* order (the signature as v, r, s).
signed_Eip155_decode(buf) ==
    Eip155FromFields(StructDecode(<<"u64", "U256", "u64", "TxKind", "U256", "Bytes",
                                    "u64", "U256", "U256">>, buf))

-----------------------------------------------------------------------------
(* transaction::signed::Eip4844 and what it uses of request::Eip4844 and of *)
(* signature::Fakeable                                                      *)

\* utils::envelop_bytes(id, bytes): the kind byte, then the payload.
envelop_bytes(id, bytes) == <<id>> \o bytes

\* The eleven unsigned fields an Eip4844 request and transaction share, encoded.
Eip4844FieldsEncode(t) ==
    <<UintEncode(t.chain_id), UintEncode(t.nonce),
      UintEncode(t.max_priority_fee_per_gas), UintEncode(t.max_fee_per_gas),
      UintEncode(t.gas_limit), FixedBytesEncode(t.to), UintEncode(t.value),
      BytesEncode(t.input), AccessListEncode(t.access_list),
      UintEncode(t.max_fee_per_blob_gas), B256ListEncode(t.blob_hashes)>>

\* request::Eip4844::hash: the hash of the enveloped unsigned fields.
request_Eip4844_hash(req) ==
    keccak256(envelop_bytes(3, ListEncode(Eip4844FieldsEncode(req))))

\* Encodable for SignatureWithYParity: y_parity, r, s in this order.
SignatureWithYParityEncode(sig) ==
    <<BoolEncode(sig.y_parity), UintEncode(sig.r), UintEncode(sig.s)>>

\* #[derive(RlpEncodable)] for signed::Eip4844; hash is skipped.
signed_Eip4844_encode(t) ==
    ListEncode(Eip4844FieldsEncode(t) \o SignatureWithYParityEncode(t.signature.data))

\* The hash of the list alone, as for an untyped transaction.
signed_Eip4844_compute_hash_untyped(t) == keccak256(signed_Eip4844_encode(t))

\* The closure of signed::Eip4844::hash
signed_Eip4844_compute_hash(t) ==
    LET encoded == signed_Eip4844_encode(t)
        enveloped == envelop_bytes(3, encoded)
    IN keccak256(enveloped)

\* Fakeable::recover(signature, hash): the signature with its recovered caller.
Fakeable_recover(sig, hash) ==
    LET a == RecoverAddress(sig.r, sig.s, IF sig.y_parity THEN 1 ELSE 0, hash) IN
    IF ~a.ok THEN a
    ELSE Ok([data |-> sig, address |-> a.val, is_fake |-> FALSE])

\* Fakeable::fake(address): a fake signature for an impersonated caller.
Fakeable_fake(address) ==
    LET f == make_fake_signature(0, address) IN
    [data |-> [r |-> f.r, s |-> f.s, y_parity |-> FALSE],
     address |-> address, is_fake |-> TRUE]

\* The signed transaction assembled from the fields and a Fakeable signature.
Eip4844From(t, signature) ==
    [chain_id |-> t.chain_id, nonce |-> t.nonce,
     max_priority_fee_per_gas |-> t.max_priority_fee_per_gas,
     max_fee_per_gas |-> t.max_fee_per_gas, gas_limit |-> t.gas_limit,
     to |-> t.to, value |-> t.value, input |-> t.input,
     access_list |-> t.access_list,
     max_fee_per_blob_gas |-> t.max_fee_per_blob_gas,
     blob_hashes |-> t.blob_hashes, signature |-> signature, hash |-> EmptyCell]

\* request::Eip4844::sign(self, secret_key)
Eip4844_sign(req, secret) ==
    LET sig == Signature_new(request_Eip4844_hash(req), secret)
        data == [r |-> sig.r, s |-> sig.s, y_parity |-> sig.v = U64Of(28)]
    IN Eip4844From(req, Fakeable_recover(data, request_Eip4844_hash(req)).val)

\* request::Eip4844::fake_sign(self, address)
Eip4844_fake_sign(req, address) == Eip4844From(req, Fakeable_fake(address))

\* impl From<&Decodable> for request::Eip4844
request_from_Decodable(d) ==
    [chain_id |-> d.chain_id, nonce |-> d.nonce,
     max_priority_fee_per_gas |-> d.max_priority_fee_per_gas,
     max_fee_per_gas |-> d.max_fee_per_gas,
     max_fee_per_blob_gas |-> d.max_fee_per_blob_gas,
     gas_limit |-> d.gas_limit, to |-> d.to, value |-> d.value,
     input |-> d.input, access_list |-> d.access_list,
     blob_hashes |-> d.blob_hashes]

\* The Decodable record built from its decoded fields.
DecodableFromFields(d) ==
    IF ~d.ok THEN Err(d.err)
    ELSE Ok([chain_id |-> d.val[1], nonce |-> d.val[2],
             max_priority_fee_per_gas |-> d.val[3], max_fee_per_gas |-> d.val[4],
             gas_limit |-> d.val[5], to |-> d.val[6], value |-> d.val[7],
             input |-> d.val[8], access_list |-> d.val[9],
             max_fee_per_blob_gas |-> d.val[10], blob_hashes |-> d.val[11],
             signature |-> [y_parity |-> d.val[12], r |-> d.val[13],
                            s |-> d.val[14]]])

\* #[derive(RlpDecodable)] struct Decodable: the flat field list.
Decodable_decode(buf) ==
    DecodableFromFields(
        StructDecode(<<"u64", "u64", "U256", "U256", "u64", "Address", "U256",
                       "Bytes", "AccessList", "U256", "Vec<B256>",
                       "bool", "U256", "U256">>, buf))

\* A recovery failure reported as a decode failure of the field list.
RecoveryFailureAsStructural(error) == Err("UnexpectedLength")

\* The error the decoder reports when recovery fails.
RecoveryFailure(error) == Err("Custom(Invalid Signature)")

\* The second phase of the decode: recovery against the hash of the request
\* rebuilt from the parsed fields.
Eip4844Validated(transaction, signature) ==
    IF ~signature.ok
    THEN [res |-> RecoveryFailure(signature.err), phase |-> "recover"]
    ELSE [res |-> Ok(Eip4844From(transaction, signature.val)), phase |-> "done"]

Eip4844Parsed(transaction) ==
    IF ~transaction.ok THEN [res |-> transaction, phase |-> "parse"]
    ELSE Eip4844Validated(
            transaction.val,
            Fakeable_recover(transaction.val.signature,
                             request_Eip4844_hash(request_from_Decodable(transaction.val))))

\* impl alloy_rlp::Decodable for signed::Eip4844.  phase tells how far the
\* decode got: "parse" (the field list was rejected), "recover" (recovery on
\* the reconstructed request's hash was rejected) or "done".
signed_Eip4844_decode(buf) == Eip4844Parsed(Decodable_decode(buf))

\* impl PartialEq for signed::Eip4844: every field but hash.
signed_Eip4844_eq(a, b) ==
    /\ a.chain_id = b.chain_id
    /\ a.nonce = b.nonce
    /\ a.max_priority_fee_per_gas = b.max_priority_fee_per_gas
    /\ a.max_fee_per_gas = b.max_fee_per_gas
    /\ a.max_fee_per_blob_gas = b.max_fee_per_blob_gas
    /\ a.gas_limit = b.gas_limit
    /\ a.to = b.to
    /\ a.value = b.value
    /\ a.input = b.input
    /\ a.access_list = b.access_list
    /\ a.blob_hashes = b.blob_hashes
    /\ a.signature = b.signature

-----------------------------------------------------------------------------
(* Sample inputs                                                            *)

NThreads == 2
MaxCalls == 2

Threads == 1..NThreads

AddressA == <<192, 20, 186, 94, 192, 20, 186, 94, 192, 20, 186, 94, 192, 20, 186, 94,
              192, 20, 186, 94>>
AddressB == LeftPad(<<9>>, AddressBytes)

\* Chain ids: a small one, the ones around 2^63 - 18 where chain_id * 2 + 35
\* and the v built on it reach the end of u64, and u64::MAX.
ChainIds ==
    {U64Of(1),
     <<127, 255, 255, 255, 255, 255, 255, 237>>,
     <<127, 255, 255, 255, 255, 255, 255, 238>>,
     <<128, 0, 0, 0, 0, 0, 0, 0>>,
     <<255, 255, 255, 255, 255, 255, 255, 255>>}

Request155(kind, input, c) ==
    [nonce |-> U64Of(1), gas_price |-> U256Of(2), gas_limit |-> U64Of(3),
     kind |-> kind, value |-> U256Of(4), input |-> input, chain_id |-> c]

Requests155 ==
    {Request155(Call(AddressA), <<18, 52>>, c) : c \in ChainIds}
    \cup {Request155(Create, << >>, U64Of(123))}

Request4844(input, access_list, blob_hashes) ==
    [chain_id |-> U64Of(1337), nonce |-> U64Of(0),
     max_priority_fee_per_gas |-> U256Of(1000), max_fee_per_gas |-> U256Of(1000),
     gas_limit |-> U64Of(1000000), to |-> AddressA, value |-> U256Of(0),
     input |-> input, access_list |-> access_list,
     max_fee_per_blob_gas |-> U256Of(1), blob_hashes |-> blob_hashes]

Requests4844 ==
    {Request4844(<<32, 105, 176, 199>>, << >>, <<U256Of(424242)>>),
     Request4844(<< >>,
                 <<[address |-> AddressB, storage_keys |-> <<U256Of(1), U256Of(2)>>]>>,
                 <<U256Of(424242), U256Of(7)>>)}

SecretKeys == {7, 200}
Senders == {AddressA, AddressB}

\* A signed transaction of either kind.
Signed155(t) == [kind |-> "Eip155", tx |-> t]
Signed4844(t) == [kind |-> "Eip4844", tx |-> t]

-----------------------------------------------------------------------------
(* The hash cache: signed::Eip155::hash and signed::Eip4844::hash through    *)
(* OnceLock::get_or_init, called from several threads on one transaction.   *)

\* The closure handed to get_or_init by hash(), by kind.
compute_hash(stx) ==
    IF stx.kind = "Eip155" THEN signed_Eip155_compute_hash(stx.tx)
    ELSE signed_Eip4844_compute_hash(stx.tx)

\* Transactions whose hash is asked for: signed and fake-signed ones.
HashedTransactions ==
    {Signed155(sign(r, 7).val) :
        r \in {Request155(Call(AddressA), <<18, 52>>, U64Of(1)),
               Request155(Create, << >>, U64Of(123))}}
    \cup {Signed155(fake_sign(Request155(Call(AddressA), <<18, 52>>, U64Of(1)),
                              AddressB).val)}
    \cup {Signed4844(Eip4844_sign(r, 200)) : r \in Requests4844}

\* A Once that lets a caller in while another is still running the initializer.
CallOnceMayRunUnlessSet(c) == c.state # "set"

\* Once::call_once_force lets a caller run the initializer only while the
\* cell is neither initialized nor being initialized.
CallOnceMayRun(c) == c.state = "empty"

HashInit ==
    /\ tx \in HashedTransactions
    /\ cell = EmptyCell
    /\ hpc = [t \in Threads |-> "idle"]
    /\ hret = [t \in Threads |-> << >>]
    /\ writes = 0

\* hash() is called; get_or_init's fast path returns an initialized value.
HashGet(t) ==
    /\ hpc[t] = "idle"
    /\ Len(hret[t]) < MaxCalls
    /\ IF cell.state = "set"
       THEN /\ hret' = [hret EXCEPT ![t] = Append(@, cell.value)]
            /\ UNCHANGED hpc
       ELSE /\ hpc' = [hpc EXCEPT ![t] = "initialize"]
            /\ UNCHANGED hret
    /\ UNCHANGED <<tx, cell, writes>>
    /\ UNCHANGED <<blockVars, txVars, traceVars, panicked>>

\* OnceLock::initialize: one caller enters the initializer, a caller that
\* finds the cell initialized goes on, the others wait.
HashOnce(t) ==
    /\ hpc[t] = "initialize"
    /\ \/ /\ cell.state = "set"
          /\ hpc' = [hpc EXCEPT ![t] = "get_unchecked"]
          /\ UNCHANGED cell
       \/ /\ CallOnceMayRun(cell)
          /\ cell' = [cell EXCEPT !.state = "running"]
          /\ hpc' = [hpc EXCEPT ![t] = "closure"]
    /\ UNCHANGED <<tx, hret, writes>>
    /\ UNCHANGED <<blockVars, txVars, traceVars, panicked>>

\* The initializer computes the hash and writes it into the cell.
HashClosure(t) ==
    /\ hpc[t] = "closure"
    /\ cell' = SetCell(compute_hash(tx))
    /\ writes' = writes + 1
    /\ hpc' = [hpc EXCEPT ![t] = "get_unchecked"]
    /\ UNCHANGED <<tx, hret>>
    /\ UNCHANGED <<blockVars, txVars, traceVars, panicked>>

\* get_or_init returns the value in the cell.
HashReturn(t) ==
    /\ hpc[t] = "get_unchecked"
    /\ hret' = [hret EXCEPT ![t] = Append(@, cell.value)]
    /\ hpc' = [hpc EXCEPT ![t] = "idle"]
    /\ UNCHANGED <<tx, cell, writes>>
    /\ UNCHANGED <<blockVars, txVars, traceVars, panicked>>

HashNext ==
    \E t \in Threads : HashGet(t) \/ HashOnce(t) \/ HashClosure(t) \/ HashReturn(t)

-----------------------------------------------------------------------------
(* RemoteBlock::transaction_receipts, called from several threads on one    *)
(* block.                                                                   *)

Unset == << >>

\* The receipt lists the remote node may answer with (one receipt per
\* transaction of the block, named by its number).
ReceiptLists == {<<1, 2>>, <<1, 3>>}

\* What the RPC client may answer.
RpcAnswers ==
    {Err("RpcClient"), Ok(Unset)} \cup {Ok(rs) : rs \in ReceiptLists}

\* A set that stores the value whatever the cell holds.
OnceLockSetOverwriting(c, value) == [cell |-> value, ok |-> TRUE]

\* OnceLock::set(value): Ok and the value is stored if the cell is unset,
\* Err otherwise.
OnceLockSet(c, value) ==
    IF c = Unset THEN [cell |-> value, ok |-> TRUE] ELSE [cell |-> c, ok |-> FALSE]

BlockInit ==
    /\ receipts = Unset
    /\ rpc = [t \in Threads |-> "idle"]
    /\ fetched = [t \in Threads |-> Unset]
    /\ rret = [t \in Threads |-> << >>]
    /\ requests = 0

\* The call and its check of the cell: return the cached receipts, or go on
\* to ask the remote node.
ReceiptsGet(t) ==
    /\ rpc[t] = "idle"
    /\ Len(rret[t]) < MaxCalls
    /\ IF receipts # Unset
       THEN /\ rret' = [rret EXCEPT ![t] = Append(@, Ok(receipts))]
            /\ UNCHANGED rpc
       ELSE /\ rpc' = [rpc EXCEPT ![t] = "fetch"]
            /\ UNCHANGED rret
    /\ UNCHANGED <<receipts, fetched, requests, panicked>>
    /\ UNCHANGED <<hashVars, txVars, traceVars>>

\* A fetch that caches a placeholder list when the node has no receipts.
ReceiptsFetchCachingMissing(t) ==
    /\ rpc[t] = "fetch"
    /\ requests' = requests + 1
    /\ \E answer \in RpcAnswers :
          IF ~answer.ok
          THEN /\ rret' = [rret EXCEPT ![t] = Append(@, Err("RpcClient"))]
               /\ rpc' = [rpc EXCEPT ![t] = "idle"]
               /\ UNCHANGED <<fetched, receipts>>
          ELSE IF answer.val = Unset
          THEN /\ rret' = [rret EXCEPT ![t] = Append(@, Err("MissingReceipts"))]
               /\ rpc' = [rpc EXCEPT ![t] = "idle"]
               /\ receipts' = <<0>>
               /\ UNCHANGED fetched
          ELSE /\ fetched' = [fetched EXCEPT ![t] = answer.val]
               /\ rpc' = [rpc EXCEPT ![t] = "set"]
               /\ UNCHANGED <<rret, receipts>>
    /\ UNCHANGED panicked
    /\ UNCHANGED <<hashVars, txVars, traceVars>>

\* get_transaction_receipts: an RPC error, no receipts, or the receipts.
ReceiptsFetch(t) ==
    /\ rpc[t] = "fetch"
    /\ requests' = requests + 1
    /\ \E answer \in RpcAnswers :
          IF ~answer.ok
          THEN /\ rret' = [rret EXCEPT ![t] = Append(@, Err("RpcClient"))]
               /\ rpc' = [rpc EXCEPT ![t] = "idle"]
               /\ UNCHANGED fetched
          ELSE IF answer.val = Unset
          THEN /\ rret' = [rret EXCEPT ![t] = Append(@, Err("MissingReceipts"))]
               /\ rpc' = [rpc EXCEPT ![t] = "idle"]
               /\ UNCHANGED fetched
          ELSE /\ fetched' = [fetched EXCEPT ![t] = answer.val]
               /\ rpc' = [rpc EXCEPT ![t] = "set"]
               /\ UNCHANGED rret
    /\ UNCHANGED <<receipts, panicked>>
    /\ UNCHANGED <<hashVars, txVars, traceVars>>

\* self.receipts.set(receipts.clone()).expect(..), then Ok(receipts).
ReceiptsSet(t) ==
    /\ rpc[t] = "set"
    /\ LET r == OnceLockSet(receipts, fetched[t]) IN
       /\ receipts' = r.cell
       /\ IF r.ok
          THEN /\ rret' = [rret EXCEPT ![t] = Append(@, Ok(fetched[t]))]
               /\ rpc' = [rpc EXCEPT ![t] = "idle"]
               /\ UNCHANGED panicked
          ELSE /\ panicked' = TRUE
               /\ rpc' = [rpc EXCEPT ![t] = "panicked"]
               /\ UNCHANGED rret
    /\ UNCHANGED <<fetched, requests>>
    /\ UNCHANGED <<hashVars, txVars, traceVars>>

BlockNext ==
    \E t \in Threads : ReceiptsGet(t) \/ ReceiptsFetch(t) \/ ReceiptsSet(t)

-----------------------------------------------------------------------------
(* Signing, recovery, encoding and decoding of one transaction.             *)

NoTx == [kind |-> "None"]
NoOutcome == [op |-> "none"]

\* A legacy request: the fields of an Eip155 request without the chain id.
RequestsLegacy == {[kind |-> "Legacy", req |-> Request155(Call(AddressA), <<18, 52>>, U64Of(0))]}

Requests ==
    {[kind |-> "Eip155", req |-> r] : r \in Requests155}
    \cup {[kind |-> "Eip4844", req |-> r] : r \in Requests4844}
    \cup RequestsLegacy

\* request::Legacy::hash: the hash of the six fields' list.
request_Legacy_hash(req) ==
    keccak256(ListEncode(<<UintEncode(req.nonce), UintEncode(req.gas_price),
                           UintEncode(req.gas_limit), KindEncode(req.kind),
                           UintEncode(req.value), BytesEncode(req.input)>>))

\* request::Legacy::sign: the signature keeps the v = 27 + recovery id of
\* Signature::new.
Legacy_sign(req, secret) ==
    SignedFrom(req, Signature_new(request_Legacy_hash(req), secret), FALSE)

\* request::Legacy::fake_sign: the fake signature with its base v.
Legacy_fake_sign(req, address) ==
    SignedFrom(req, make_fake_signature(0, address), TRUE)

\* OnceLock::get_or_init by a single caller: the cell after the call (the
\* call returns a reference to its value).
get_or_init(c, value) == IF c.state = "set" THEN c ELSE SetCell(value)

\* signed::Legacy::hash: the hash of the list of the fields and the
\* signature; the transaction after the call, its cache populated.
Legacy_hashed(legacy) ==
    [legacy EXCEPT !.hash = get_or_init(@, keccak256(
        ListEncode(<<UintEncode(legacy.nonce), UintEncode(legacy.gas_price),
                     UintEncode(legacy.gas_limit), KindEncode(legacy.kind),
                     UintEncode(legacy.value), BytesEncode(legacy.input)>>
                   \o SignatureEncode(legacy.signature))))]

\* The signed legacy transactions a request gives: signed with a key or
\* fake-signed for a sender, hash() called on it or not; by is the signer.
SignedLegacies(req) ==
    LET fresh == {[tx |-> Legacy_sign(req, k), by |-> public_key_to_address(k)] :
                     k \in SecretKeys}
                 \cup {[tx |-> Legacy_fake_sign(req, a), by |-> a] : a \in Senders}
    IN fresh \cup {[tx |-> Legacy_hashed(l.tx), by |-> l.by] : l \in fresh}

\* A conversion that starts the result with an empty cache.
Eip155_from_Legacy_fresh_cache(legacy) ==
    [nonce |-> legacy.nonce, gas_price |-> legacy.gas_price,
     gas_limit |-> legacy.gas_limit, kind |-> legacy.kind, value |-> legacy.value,
     input |-> legacy.input, signature |-> legacy.signature,
     hash |-> EmptyCell, is_fake |-> legacy.is_fake]

\* impl From<signed::Legacy> for signed::Eip155: a field copy.
Eip155_from_Legacy(legacy) ==
    [nonce |-> legacy.nonce, gas_price |-> legacy.gas_price,
     gas_limit |-> legacy.gas_limit, kind |-> legacy.kind, value |-> legacy.value,
     input |-> legacy.input, signature |-> legacy.signature,
     hash |-> legacy.hash, is_fake |-> legacy.is_fake]

\* alloy_rlp::encode of a signed transaction, by kind.
encode(stx) ==
    IF stx.kind = "Eip155" THEN signed_Eip155_encode(stx.tx)
    ELSE signed_Eip4844_encode(stx.tx)

\* Values of v an adversary may put on the wire.
ForgedV == {U64Of(0), U64Of(27), U64Of(34), U64Of(35), U64Of(38)}

\* Bytes an adversary may send instead of the encoding of stx: the encoding
\* cut short, one with a wrong declared length, and well-formed encodings
\* with a changed v, a zero s and a changed nonce.
Forgeries(stx) ==
    LET w == encode(stx) IN
    {Take(w, Len(w) - 1), <<w[1], w[2] - 1>> \o Drop(w, 2), << >>}
    \cup (IF stx.kind = "Eip155"
          THEN {signed_Eip155_encode([stx.tx EXCEPT !.signature.v = v]) : v \in ForgedV}
               \cup {signed_Eip155_encode([stx.tx EXCEPT !.signature.s = U256Of(0)])}
          ELSE {signed_Eip4844_encode([stx.tx EXCEPT !.signature.data.s = U256Of(0)]),
                signed_Eip4844_encode([stx.tx EXCEPT !.nonce = U64Of(5)])})

TxInit ==
    /\ overflow_checks \in BOOLEAN
    /\ request \in Requests
    /\ signed = NoTx
    /\ wire = << >>
    /\ outcome = NoOutcome

\* An operation whose u64 arithmetic overflowed: it aborts where overflow is
\* checked, and goes on with the wrapped value where it is not.
Finish(op, overflow, ifReturns) ==
    IF overflow /\ overflow_checks
    THEN /\ panicked' = TRUE
         /\ outcome' = [op |-> op, panic |-> TRUE]
         /\ UNCHANGED <<signed, wire>>
    ELSE /\ ifReturns
         /\ UNCHANGED panicked

\* request.sign(&secret_key)
Sign ==
    /\ ~panicked /\ signed = NoTx /\ request.kind = "Eip155"
    /\ \E secret_key \in SecretKeys :
       LET r == sign(request.req, secret_key) IN
       Finish("sign", r.overflow,
              /\ signed' = [kind |-> "Eip155", tx |-> r.val, origin |-> "sign",
                            by |-> public_key_to_address(secret_key)]
              /\ UNCHANGED <<wire, outcome>>)
    /\ UNCHANGED <<overflow_checks, request>>
    /\ UNCHANGED <<hashVars, blockVars, traceVars>>

\* request.fake_sign(&sender)
FakeSign ==
    /\ ~panicked /\ signed = NoTx /\ request.kind = "Eip155"
    /\ \E sender \in Senders :
       LET r == fake_sign(request.req, sender) IN
       Finish("fake_sign", r.overflow,
              /\ signed' = [kind |-> "Eip155", tx |-> r.val, origin |-> "fake_sign",
                            by |-> sender]
              /\ UNCHANGED <<wire, outcome>>)
    /\ UNCHANGED <<overflow_checks, request>>
    /\ UNCHANGED <<hashVars, blockVars, traceVars>>

\* Eip155::from(legacy) on a signed legacy transaction.
UpgradeLegacy ==
    /\ ~panicked /\ signed = NoTx /\ request.kind = "Legacy"
    /\ \E legacy \in SignedLegacies(request.req) :
          signed' = [kind |-> "Eip155", tx |-> Eip155_from_Legacy(legacy.tx),
                     origin |-> "upgrade", by |-> legacy.by, source |-> legacy.tx]
    /\ UNCHANGED <<overflow_checks, request, wire, outcome, panicked>>
    /\ UNCHANGED <<hashVars, blockVars, traceVars>>

\* request.sign(&secret_key) on an Eip4844 request
Sign4844 ==
    /\ ~panicked /\ signed = NoTx /\ request.kind = "Eip4844"
    /\ \E secret_key \in SecretKeys :
          signed' = [kind |-> "Eip4844", tx |-> Eip4844_sign(request.req, secret_key),
                     origin |-> "sign", by |-> public_key_to_address(secret_key)]
    /\ UNCHANGED <<overflow_checks, request, wire, outcome, panicked>>
    /\ UNCHANGED <<hashVars, blockVars, traceVars>>

\* request.fake_sign(&sender) on an Eip4844 request
FakeSign4844 ==
    /\ ~panicked /\ signed = NoTx /\ request.kind = "Eip4844"
    /\ \E sender \in Senders :
          signed' = [kind |-> "Eip4844", tx |-> Eip4844_fake_sign(request.req, sender),
                     origin |-> "fake_sign", by |-> sender]
    /\ UNCHANGED <<overflow_checks, request, wire, outcome, panicked>>
    /\ UNCHANGED <<hashVars, blockVars, traceVars>>

\* signed.recover()
Recover ==
    /\ ~panicked /\ signed.kind = "Eip155"
    /\ LET r == recover(signed.tx) IN
       Finish("recover", r.overflow,
              /\ outcome' = [op |-> "recover", panic |-> FALSE, res |-> r.val]
              /\ UNCHANGED <<signed, wire>>)
    /\ UNCHANGED <<overflow_checks, request>>
    /\ UNCHANGED <<hashVars, blockVars, traceVars>>

\* signed.chain_id()
ChainId ==
    /\ ~panicked /\ signed.kind = "Eip155"
    /\ LET r == chain_id(signed.tx) IN
       Finish("chain_id", r.overflow,
              /\ outcome' = [op |-> "chain_id", panic |-> FALSE, res |-> r.val]
              /\ UNCHANGED <<signed, wire>>)
    /\ UNCHANGED <<overflow_checks, request>>
    /\ UNCHANGED <<hashVars, blockVars, traceVars>>

\* alloy_rlp::encode(&signed)
Encode ==
    /\ ~panicked /\ signed # NoTx /\ signed.origin # "decode"
    /\ wire' = encode(signed)
    /\ outcome' = [op |-> "encode"]
    /\ UNCHANGED <<overflow_checks, request, signed, panicked>>
    /\ UNCHANGED <<hashVars, blockVars, traceVars>>

\* Bytes of an adversary's making arrive instead.
Forge ==
    /\ ~panicked /\ signed # NoTx /\ signed.origin # "decode"
    /\ wire' \in Forgeries(signed)
    /\ outcome' = [op |-> "forge"]
    /\ UNCHANGED <<overflow_checks, request, signed, panicked>>
    /\ UNCHANGED <<hashVars, blockVars, traceVars>>

\* signed::Eip155::decode(&mut wire)
Decode155 ==
    /\ ~panicked /\ outcome.op \in {"encode", "forge"}
    /\ \E d \in {signed_Eip155_decode(wire)} :
          outcome' = [op |-> "decode", kind |-> "Eip155", res |-> d,
                      phase |-> IF d.ok THEN "done" ELSE "parse"]
    /\ UNCHANGED <<overflow_checks, request, signed, wire, panicked>>
    /\ UNCHANGED <<hashVars, blockVars, traceVars>>

\* signed::Eip4844::decode(&mut wire)
Decode4844 ==
    /\ ~panicked /\ outcome.op \in {"encode", "forge"}
    /\ \E d \in {signed_Eip4844_decode(wire)} :
          outcome' = [op |-> "decode", kind |-> "Eip4844", res |-> d.res,
                      phase |-> d.phase]
    /\ UNCHANGED <<overflow_checks, request, signed, wire, panicked>>
    /\ UNCHANGED <<hashVars, blockVars, traceVars>>

\* The caller goes on with the transaction a decode returned.
Adopt ==
    /\ ~panicked /\ outcome.op = "decode" /\ outcome.res.ok
    /\ signed' = [kind |-> outcome.kind, tx |-> outcome.res.val, origin |-> "decode",
                  by |-> signed.by]
    /\ outcome' = NoOutcome
    /\ UNCHANGED <<overflow_checks, request, wire, panicked>>
    /\ UNCHANGED <<hashVars, blockVars, traceVars>>

\* signed.hash() by a single caller: the cache is populated on the first
\* call and read on the later ones.
Hash ==
    /\ ~panicked /\ signed # NoTx
    /\ \E c \in {get_or_init(signed.tx.hash, compute_hash(signed))} :
          /\ signed' = [signed EXCEPT !.tx.hash = c]
          /\ outcome' = [op |-> "hash", res |-> c.value]
    /\ UNCHANGED <<overflow_checks, request, wire, panicked>>
    /\ UNCHANGED <<hashVars, blockVars, traceVars>>

\* The transaction after hash() was called on it.
Hashed(stx) == [stx.tx EXCEPT !.hash = get_or_init(@, compute_hash(stx))]

\* Transactions to compare the one in hand with: itself, itself with the
\* cache in the other state, and ones that differ from it in one field.
Variants(stx) ==
    {stx.tx, Hashed(stx), [stx.tx EXCEPT !.hash = EmptyCell],
     [stx.tx EXCEPT !.nonce = U64Of(9)], [stx.tx EXCEPT !.input = <<1>>]}
    \cup (IF stx.kind = "Eip155"
          THEN {[stx.tx EXCEPT !.is_fake = ~@],
                [Hashed(stx) EXCEPT !.is_fake = ~@],
                [stx.tx EXCEPT !.signature.s = U256Of(0)],
                [stx.tx EXCEPT !.kind = Create, !.value = U256Of(0)]}
          ELSE {[stx.tx EXCEPT !.signature.is_fake = ~@],
                [stx.tx EXCEPT !.signature.data.y_parity = ~@],
                [stx.tx EXCEPT !.blob_hashes = << >>]})

\* a == b on two signed transactions of one kind.
eq(kind, a, b) ==
    IF kind = "Eip155" THEN signed_Eip155_eq(a, b) ELSE signed_Eip4844_eq(a, b)

\* signed == other, with the bytes and the hash of other.
Compare ==
    /\ ~panicked /\ signed # NoTx
    /\ \E other \in Variants(signed) :
          outcome' = [op |-> "compare", other |-> other,
                      eq |-> eq(signed.kind, signed.tx, other),
                      bytes |-> encode([kind |-> signed.kind, tx |-> other]),
                      digest |-> compute_hash([kind |-> signed.kind, tx |-> other])]
    /\ UNCHANGED <<overflow_checks, request, signed, wire, panicked>>
    /\ UNCHANGED <<hashVars, blockVars, traceVars>>

\* alloy_rlp::encode(&request) and request.length() on an Eip155 request
\* that was not signed.
EncodeRequest ==
    /\ ~panicked /\ signed = NoTx /\ request.kind = "Eip155"
    /\ outcome.op = "none"
    /\ wire' = request_Eip155_encode(request.req)
    /\ outcome' = [op |-> "encode_request",
                   length |-> request_Eip155_length(request.req)]
    /\ UNCHANGED <<overflow_checks, request, signed, panicked>>
    /\ UNCHANGED <<hashVars, blockVars, traceVars>>

\* Requests of all item shapes: inputs that are empty, one low byte, one
\* high byte, short and long; small and large numbers.
RequestsWide ==
    {[kind |-> "Eip155",
      req |-> [Request155(k, i, c) EXCEPT !.nonce = n, !.value = v]] :
        k \in {Call(AddressA), Create},
        i \in {<< >>, <<5>>, <<200>>, <<18, 52>>, Zeros(60)},
        c \in ChainIds,
        n \in {U64Of(0), U64Of(128)},
        v \in {U256Of(4), [j \in 1..U256Bytes |-> 255]}}

RequestInit ==
    /\ overflow_checks = TRUE
    /\ request \in RequestsWide
    /\ signed = NoTx
    /\ wire = << >>
    /\ outcome = NoOutcome

SignedNext ==
    \/ Sign \/ FakeSign \/ UpgradeLegacy \/ Sign4844 \/ FakeSign4844
    \/ Hash \/ Compare

TxNext ==
    \/ Sign \/ FakeSign \/ UpgradeLegacy \/ Sign4844 \/ FakeSign4844
    \/ Recover \/ ChainId \/ Encode \/ Forge
    \/ Decode155 \/ Decode4844 \/ Adopt

-----------------------------------------------------------------------------
(* RawTrace::old_trace and RawTrace::trace on one recorded trace.           *)

NotCalled == [ok |-> FALSE, val |-> << >>, err |-> "not called"]

\* An Option is a sequence of no or one element.
None == << >>
Some(x) == <<x>>

\* step.stack as the conversions see it: what full() answers and what top()
\* answers, with no relation assumed between the two.
StackTop(top) == [full |-> None, top |-> top]
StackFull(items, top) == [full |-> Some(items), top |-> top]
stack_full(stack) == stack.full
stack_top(stack) == stack.top

\* slice.last()
last(items) == IF Len(items) = 0 THEN None ELSE Some(items[Len(items)])

\* u256_to_bigint: the four 64-bit limbs, least significant first.
u256_to_bigint(v) ==
    [sign_bit |-> FALSE,
     words |-> [i \in 1..4 |-> SubSeq(v, U256Bytes - 8 * i + 1, U256Bytes - 8 * (i - 1))]]

\* BigInt::get_i64 > n for a small n: the first limb read as i64.
get_i64_greater(bigint, n) ==
    bigint.words[1][1] < 128 /\ LessWide(U64Of(n), bigint.words[1])

\* The first limb read as u64 > n.
get_u64_greater(bigint, n) == LessWide(U64Of(n), bigint.words[1])

\* The element is_valid looks at: the last element of the full stack if
\* the full stack is available, otherwise the top element.
TopElement(stack) ==
    IF stack_full(stack) = None THEN stack_top(stack)
    ELSE last(stack_full(stack)[1])

\* The stack of a TracingStep: the full stack if available, otherwise the
\* top element alone, or nothing.
StackItems(stack) ==
    IF stack_full(stack) = None THEN stack_top(stack) ELSE stack_full(stack)[1]

\* A validity test that reads the element as an unsigned number.
is_valid_unsigned(step) ==
    IF TopElement(step.stack) = None THEN FALSE
    ELSE get_u64_greater(u256_to_bigint(TopElement(step.stack)[1]), 1024 * 1024)

\* TracingStep::is_valid
is_valid(step) ==
    IF TopElement(step.stack) = None THEN FALSE
    ELSE get_i64_greater(u256_to_bigint(TopElement(step.stack)[1]), 1024 * 1024)

\* TracingStep::new
TracingStep_new(step) ==
    [either |-> "B", depth |-> step.depth,
     stack |-> [i \in 1..Len(StackItems(step.stack)) |->
                   u256_to_bigint(StackItems(step.stack)[i])]]

\* TracingMessage::new(&env, message): fails when the environment cannot
\* create the buffers.
TracingMessage_new(message) ==
    IF message.env_fails THEN Err("napi")
    ELSE Ok([either |-> "A", depth |-> message.depth])

\* ExecutionResult::new(&env, message) wrapped in TracingMessageResult.
TracingMessageResult_new(message) ==
    IF message.env_fails THEN Err("napi")
    ELSE Ok([either |-> "C", depth |-> message.depth])

\* The closure of old_trace: one message converted.
Convert(message) ==
    IF message.type = "Before" THEN TracingMessage_new(message)
    ELSE IF message.type = "Step" THEN Ok(TracingStep_new(message))
    ELSE TracingMessageResult_new(message)

\* collect::<napi::Result<_>>(): the first error, or all the values.
RECURSIVE Collect(_, _, _)
Collect(msgs, i, acc) ==
    IF i > Len(msgs) THEN Ok(acc)
    ELSE IF ~Convert(msgs[i]).ok THEN Convert(msgs[i])
    ELSE Collect(msgs, i + 1, Append(acc, Convert(msgs[i]).val))

\* RawTrace::old_trace
old_trace(msgs) == Collect(msgs, 1, << >>)

\* The loop of RawTrace::trace from message i on, result_vec so far.
RECURSIVE TraceLoop(_, _, _)
TraceLoop(msgs, i, result_vec) ==
    IF i > Len(msgs) THEN Ok(result_vec)
    ELSE IF msgs[i].type = "Step"
    THEN IF is_valid(msgs[i])
         THEN TraceLoop(msgs, i + 1, Append(result_vec, TracingStep_new(msgs[i])))
         ELSE TraceLoop(msgs, i + 1, result_vec)
    ELSE IF ~Convert(msgs[i]).ok THEN Convert(msgs[i])
    ELSE TraceLoop(msgs, i + 1, Append(result_vec, Convert(msgs[i]).val))

\* RawTrace::trace
trace(msgs) == TraceLoop(msgs, 1, << >>)

MaxTrace == 3

\* A word above 1024 * 1024, and one whose first limb has its top bit set.
BigWord == U256Of(1048577)
NegativeWord == [i \in 1..U256Bytes |-> IF i = U256Bytes - 7 THEN 128 ELSE IF i = U256Bytes THEN 255 ELSE 0]

Step(depth, stack) == [type |-> "Step", depth |-> depth, stack |-> stack]

\* Messages a trace may hold.
TraceMessages ==
    {[type |-> "Before", depth |-> 0, env_fails |-> FALSE],
     [type |-> "Before", depth |-> 1, env_fails |-> TRUE],
     [type |-> "After", depth |-> 0, env_fails |-> FALSE],
     [type |-> "After", depth |-> 1, env_fails |-> TRUE],
     Step(0, StackTop(None)),
     Step(1, StackTop(Some(BigWord))),
     Step(2, StackTop(Some(U256Of(1048576)))),
     Step(3, StackTop(Some(NegativeWord))),
     Step(4, StackFull(<< >>, Some(BigWord))),
     Step(5, StackFull(<<BigWord, U256Of(5)>>, Some(U256Of(5)))),
     Step(6, StackFull(<<U256Of(5), BigWord>>, None))}

RECURSIVE Traces(_)
Traces(n) ==
    IF n = 0 THEN {<< >>}
    ELSE Traces(n - 1)
         \cup {Append(t, m) : t \in {u \in Traces(n - 1) : Len(u) = n - 1},
                              m \in TraceMessages}

TraceInit ==
    /\ messages \in Traces(MaxTrace)
    /\ old_out = NotCalled
    /\ new_out = NotCalled

\* raw_trace.old_trace(env)
OldTrace ==
    /\ old_out = NotCalled
    /\ old_out' = old_trace(messages)
    /\ UNCHANGED <<messages, new_out>>
    /\ UNCHANGED <<hashVars, blockVars, txVars, panicked>>

\* raw_trace.trace(env)
Trace ==
    /\ new_out = NotCalled
    /\ new_out' = trace(messages)
    /\ UNCHANGED <<messages, old_out>>
    /\ UNCHANGED <<hashVars, blockVars, txVars, panicked>>

TraceNext == OldTrace \/ Trace

-----------------------------------------------------------------------------
(* The specifications                                                       *)

HashIdle ==
    /\ tx = NoTx /\ cell = EmptyCell /\ writes = 0
    /\ hpc = [t \in Threads |-> "idle"] /\ hret = [t \in Threads |-> << >>]

TxIdle ==
    /\ overflow_checks = TRUE /\ request = NoTx
    /\ signed = NoTx /\ wire = << >> /\ outcome = NoOutcome

TraceIdle == messages = << >> /\ old_out = NotCalled /\ new_out = NotCalled

\* Signing, recovery and the codec on one transaction.
Init == TxInit /\ HashIdle /\ BlockInit /\ TraceIdle /\ panicked = FALSE
Next == TxNext
Spec == Init /\ [][Next]_vars

\* Signing, the legacy upgrade, hash() and equality on one transaction.
SpecSigned == Init /\ [][SignedNext]_vars

\* The encoding of an unsigned request.
InitRequest == RequestInit /\ HashIdle /\ BlockInit /\ TraceIdle /\ panicked = FALSE
SpecRequest == InitRequest /\ [][EncodeRequest]_vars

\* Concurrent hash() on one signed transaction.
InitHash == HashInit /\ TxIdle /\ BlockInit /\ TraceIdle /\ panicked = FALSE
SpecHash == InitHash /\ [][HashNext]_vars

\* Concurrent transaction_receipts() on one remote block.
InitBlock == BlockInit /\ HashIdle /\ TxIdle /\ TraceIdle /\ panicked = FALSE
SpecBlock == InitBlock /\ [][BlockNext]_vars

\* old_trace() and trace() on one recorded trace.
InitTrace == TraceInit /\ HashIdle /\ TxIdle /\ BlockInit /\ panicked = FALSE
SpecTrace == InitTrace /\ [][TraceNext]_vars

-----------------------------------------------------------------------------
(* Properties                                                               *)

\* C1: under every interleaving of the threads calling hash() on one signed
\* transaction whose cache starts empty, the cell is written at most once,
\* and every digest a caller has returned is the value that is in the cell.
HashWrittenOnce ==
    /\ writes <= 1
    /\ \A t \in Threads : \A i \in 1..Len(hret[t]) :
          cell.state = "set" /\ hret[t][i] = cell.value

\* Every thread has made all its calls, and more than one has returned.
HashAllReturned ==
    /\ writes = 1
    /\ \A t \in Threads : Len(hret[t]) = MaxCalls

\* C2: under every interleaving of the callers of transaction_receipts on
\* one block, the receipts cell is unset whenever a caller is about to
\* execute receipts.set(..), so that the expect on its result never fails.
ReceiptsSetOnUnsetCell ==
    /\ ~panicked
    /\ \A t \in Threads : rpc[t] = "set" => receipts = Unset

\* The transmitted bytes of a signed transaction, assembled item by item:
\* the list of the fields and the signature for Eip155, and the kind byte 3
\* before that list for Eip4844.
CanonicalBytes(stx) ==
    LET t == stx.tx
        payload ==
            IF stx.kind = "Eip155"
            THEN UintEncode(t.nonce) \o UintEncode(t.gas_price)
                 \o UintEncode(t.gas_limit) \o KindEncode(t.kind)
                 \o UintEncode(t.value) \o BytesEncode(t.input)
                 \o UintEncode(t.signature.v) \o UintEncode(t.signature.r)
                 \o UintEncode(t.signature.s)
            ELSE Concat(Eip4844FieldsEncode(t))
                 \o BoolEncode(t.signature.data.y_parity)
                 \o UintEncode(t.signature.data.r) \o UintEncode(t.signature.data.s)
        list == HeaderEncode(TRUE, Len(payload)) \o payload
    IN IF stx.kind = "Eip155" THEN list ELSE <<3>> \o list

\* C3: every digest any call of hash() has returned on a signed transaction
\* is the same, and is the keccak of the transaction's canonical transmitted
\* bytes (the plain list for Eip155, 0x03 and the list for Eip4844).
HashStable ==
    \A t \in Threads : \A i \in 1..Len(hret[t]) :
        hret[t][i] = keccak256(CanonicalBytes(tx))

\* A thread has called hash() twice on an Eip4844 transaction.
HashAskedTwice ==
    /\ tx.kind = "Eip4844"
    /\ \E t \in Threads : Len(hret[t]) = 2

\* A decode of the canonical encoding of the transaction in hand, as its kind.
RoundTripCase ==
    /\ outcome.op = "decode"
    /\ outcome.kind = signed.kind
    /\ wire = encode(signed)

\* The decode returned a transaction equal to stx (PartialEq of its kind).
SameTransaction(res, stx) ==
    /\ res.ok
    /\ IF stx.kind = "Eip155" THEN signed_Eip155_eq(res.val, stx.tx)
       ELSE signed_Eip4844_eq(res.val, stx.tx)

SignRecoverInverse ==
    /\ outcome.op = "sign" => ~outcome.panic
    /\ (outcome.op = "recover" /\ signed.origin = "sign")
          => /\ ~outcome.panic
             /\ outcome.res = Ok(signed.by)
             /\ request_Eip155_hash(request_from_signed(signed.tx))
                   = request_Eip155_hash(request.req)

\* C6: for any address and any Eip155 request with any chain id, fake_sign
\* returns and recover() on its result returns exactly that address.
FakeSignRecoverInverse ==
    /\ outcome.op = "fake_sign" => ~outcome.panic
    /\ (outcome.op = "recover" /\ signed.origin = "fake_sign")
          => (~outcome.panic /\ outcome.res = Ok(signed.by))

\* C7: for every 64-bit chain id c, signing or fake-signing a request with
\* chain id c overflows nowhere, and chain_id() of the result neither
\* underflows nor returns anything but c.
ChainIdConsistent ==
    /\ outcome.op \in {"sign", "fake_sign"} => ~outcome.panic
    /\ (outcome.op = "chain_id" /\ signed.origin \in {"sign", "fake_sign"})
          => (~outcome.panic /\ outcome.res = request.req.chain_id)

\* C8: recover() on an Eip155 transaction that was decoded from wire bytes
\* or upgraded from a legacy transaction returns an address or the
\* invalid-signature error, and never aborts.
RecoverNeverPanics ==
    (outcome.op = "recover" /\ signed.origin \in {"decode", "upgrade"})
        => /\ ~outcome.panic
           /\ outcome.res.ok \/ outcome.res.err = "InvalidSignature"

\* Recovery of the signer on the signing hash rebuilt from the fields of a
\* decoded transaction succeeds.
RecoversOnRebuiltHash(kind, t) ==
    IF kind = "Eip155"
    THEN Signature_recover(t.signature,
                           request_Eip155_hash(request_from_signed(t))).ok
    ELSE Fakeable_recover(t.signature.data,
                          request_Eip4844_hash(request_from_Decodable(t))).ok

\* C9: for every kind, a decode that returns a signed transaction has
\* rebuilt the signing hash from the parsed fields and recovered the signer
\* from it; bytes whose signature does not recover are rejected.
ValidationMandatory ==
    (outcome.op = "decode" /\ outcome.res.ok)
        => RecoversOnRebuiltHash(outcome.kind, outcome.res.val)

\* The bytes on the wire are a well-formed Eip4844 field list.
WellFormed4844 == Decodable_decode(wire).ok

\* Recovery on the request rebuilt from the field list on the wire fails.
RecoveryFails4844 ==
    LET d == Decodable_decode(wire).val IN
    ~Fakeable_recover(d.signature, request_Eip4844_hash(request_from_Decodable(d))).ok

\* C10: an Eip4844 decode of malformed or truncated bytes returns a
\* structural decode error, one of a well-formed field list whose signature
\* fails recovery returns the "Invalid Signature" error, and neither error
\* is reported for the other failure.
DecodeErrorsDistinct ==
    (outcome.op = "decode" /\ outcome.kind = "Eip4844")
        => /\ "Custom(Invalid Signature)" \notin StructuralErrors
           /\ ~WellFormed4844
                 => (~outcome.res.ok /\ outcome.res.err \in StructuralErrors)
           /\ (WellFormed4844 /\ RecoveryFails4844)
                 => (~outcome.res.ok /\ outcome.res.err = "Custom(Invalid Signature)")
           /\ (WellFormed4844 /\ ~RecoveryFails4844) => outcome.res.ok

\* A well-formed field list with a signature that does not recover has been
\* decoded.
InvalidSignatureReported ==
    /\ outcome.op = "decode" /\ outcome.kind = "Eip4844"
    /\ WellFormed4844 /\ RecoveryFails4844
    /\ outcome.res.err = "Custom(Invalid Signature)"

\* Two transactions agree in every field but the hash cache.
SameButCache(a, b) == [a EXCEPT !.hash = EmptyCell] = [b EXCEPT !.hash = EmptyCell]

\* C11: two signed transactions compare equal if and only if every field
\* but the cached hash (for Eip155 the is_fake marker included) is equal,
\* whether or not either cache is populated.
EqualityOverAllButCache ==
    outcome.op = "compare"
        => (outcome.eq <=> SameButCache(signed.tx, outcome.other))

\* The other transaction differs from the one in hand in is_fake only
\* (the caches aside).
DiffersInMarkerOnly ==
    /\ outcome.op = "compare" /\ signed.kind = "Eip155"
    /\ outcome.other.is_fake # signed.tx.is_fake
    /\ SameButCache([outcome.other EXCEPT !.is_fake = signed.tx.is_fake], signed.tx)

\* C12: two signed Eip155 transactions that differ only in is_fake have the
\* same canonical bytes and the same content hash.
MarkerNotSerialized ==
    DiffersInMarkerOnly
        => /\ outcome.bytes = signed_Eip155_encode(signed.tx)
           /\ outcome.digest = signed_Eip155_compute_hash(signed.tx)

\* A fake-signed transaction was compared with its unmarked twin.
MarkerCompared == DiffersInMarkerOnly /\ signed.tx.is_fake

\* C13: the upgrade of a signed legacy transaction carries over every
\* field, the signature, is_fake and the state of the hash cache, and
\* hash() of the result is the content hash of the result's own canonical
\* bytes, whether or not the source's cache was populated.
UpgradeLossless ==
    (signed.kind = "Eip155" /\ signed.origin = "upgrade")
        => /\ outcome.op = "none" => signed.tx = signed.source
           /\ SameButCache(signed.tx, signed.source)
           /\ outcome.op = "hash" => outcome.res = keccak256(CanonicalBytes(signed))

\* hash() was called on the upgrade of a legacy transaction whose cache was
\* populated.
UpgradedCacheUsed ==
    /\ signed.kind = "Eip155" /\ signed.origin = "upgrade"
    /\ signed.source.hash.state = "set"
    /\ outcome.op = "hash"

\* 2 * c + 35 + recovery_id in unbounded arithmetic, as nine bytes.
ExactV(c, recovery_id) ==
    AddWide(AddWide(LeftPad(c, U64Bytes + 1), LeftPad(c, U64Bytes + 1)).val,
            LeftPad(<<35 + recovery_id>>, U64Bytes + 1)).val

\* C14: the v of a transaction produced by sign is chain id * 2 + 35 +
\* recovery id with recovery id 0 or 1, and the v of one produced by
\* fake_sign is the same adjustment on the fake signature's base v.
VFormula ==
    /\ (signed.kind = "Eip155" /\ signed.origin = "sign")
          => \E recovery_id \in {0, 1} :
                LeftPad(signed.tx.signature.v, U64Bytes + 1)
                    = ExactV(request.req.chain_id, recovery_id)
    /\ (signed.kind = "Eip155" /\ signed.origin = "fake_sign")
          => LeftPad(signed.tx.signature.v, U64Bytes + 1)
                = ExactV(request.req.chain_id, 0)

\* C15: the transaction sign or fake_sign returns has the request's nonce,
\* gas price, gas limit, kind, value and input, an unpopulated hash cache,
\* and is_fake false for sign and true for fake_sign.
SignedCarriesRequest ==
    (signed.kind = "Eip155" /\ signed.origin \in {"sign", "fake_sign"}
     /\ outcome.op = "none")
        => /\ signed.tx.nonce = request.req.nonce
           /\ signed.tx.gas_price = request.req.gas_price
           /\ signed.tx.gas_limit = request.req.gas_limit
           /\ signed.tx.kind = request.req.kind
           /\ signed.tx.value = request.req.value
           /\ signed.tx.input = request.req.input
           /\ signed.tx.hash = EmptyCell
           /\ signed.tx.is_fake = (signed.origin = "fake_sign")

\* fake_sign has returned a transaction.
FakeSigned ==
    signed.kind = "Eip155" /\ signed.origin = "fake_sign" /\ outcome.op = "none"

\* The items of an unsigned Eip155 request as a decoder reads them.
RequestItems ==
    StructDecode(<<"u64", "U256", "u64", "TxKind", "U256", "Bytes", "u64",
                   "u64", "u64">>, wire)

\* C16: encode of an unsigned Eip155 request writes one RLP list of nonce,
\* gas price, gas limit, kind, value, input, chain id and two empty items
\* (0x80 0x80); the payload length in its header is the number of item
\* bytes written, and length() is the number of bytes written.
RequestEncodingExact ==
    outcome.op = "encode_request"
        => /\ RequestItems.ok /\ RequestItems.rest = << >>
           /\ RequestItems.val
                 = <<request.req.nonce, request.req.gas_price,
                     request.req.gas_limit, request.req.kind, request.req.value,
                     request.req.input, request.req.chain_id, U64Of(0), U64Of(0)>>
           /\ Drop(wire, Len(wire) - 2) = <<EMPTY_STRING_CODE, EMPTY_STRING_CODE>>
           /\ HeaderDecode(wire).val.payload_length = Len(HeaderDecode(wire).rest)
           /\ outcome.length = Len(wire)

\* A request whose list needs a long header has been encoded.
LongRequestEncoded ==
    /\ outcome.op = "encode_request"
    /\ wire[1] > 247
    /\ outcome.length = Len(wire)

\* The result thread t's call has just returned in this step, if any.
Returned(t) == Len(rret'[t]) > Len(rret[t])
Result(t) == rret'[t][Len(rret'[t])]

\* C17: a call of transaction_receipts that fails returns the RpcClient or
\* the MissingReceipts error and leaves the receipts cell as it was, and a
\* call that finds the cell unset asks the RPC client.
FailureLeavesCellUnset ==
    [][\A t \in Threads :
          /\ (Returned(t) /\ ~Result(t).ok)
                => /\ Result(t).err \in {"RpcClient", "MissingReceipts"}
                   /\ receipts' = receipts
          /\ (rpc[t] = "idle" /\ rpc'[t] # "idle" /\ receipts = Unset)
                => rpc'[t] = "fetch"
          /\ (rpc[t] = "fetch" /\ rpc'[t] # "fetch")
                => requests' = requests + 1]_vars

\* A call failed and the next call of the same thread asked the node again
\* and returned receipts.
RetriedAfterFailure ==
    \E t \in Threads :
        /\ Len(rret[t]) = 2
        /\ ~rret[t][1].ok /\ rret[t][2].ok
        /\ requests >= 2

\* C18: once the receipts cell is set it never changes; a call that starts
\* after that returns the list in the cell without a request to the RPC
\* client, and every successful call returns the list that is in the cell.
ReceiptsStableOnceSet ==
    [][/\ receipts # Unset => receipts' = receipts
       /\ \A t \in Threads :
             /\ (rpc[t] = "idle" /\ receipts # Unset /\ rret'[t] # rret[t])
                   => /\ rret'[t] = Append(rret[t], Ok(receipts))
                      /\ requests' = requests
                      /\ rpc'[t] = "idle"
             /\ (Returned(t) /\ Result(t).ok) => Result(t).val = receipts']_vars

\* A thread's call returned receipts and its next call returned them again
\* with one request made in all.
ReceiptsServedFromCell ==
    \E t \in Threads :
        /\ Len(rret[t]) = 2
        /\ rret[t][1].ok /\ rret[t][2] = rret[t][1]
        /\ requests = 1

\* An entry of old_trace's output that trace's output keeps: a message, a
\* message result, or a step whose stack has a top that reads as an i64
\* greater than 1024 * 1024.
Kept(entry) ==
    \/ entry.either # "B"
    \/ /\ Len(entry.stack) > 0
       /\ entry.stack[Len(entry.stack)].words[1][1] < 128
       /\ LessWide(U64Of(1048576), entry.stack[Len(entry.stack)].words[1])

\* The steps of the trace from position i on that pass is_valid, converted.
RECURSIVE ValidSteps(_, _)
ValidSteps(msgs, i) ==
    IF i > Len(msgs) THEN << >>
    ELSE IF msgs[i].type = "Step" /\ is_valid(msgs[i])
    THEN <<TracingStep_new(msgs[i])>> \o ValidSteps(msgs, i + 1)
    ELSE ValidSteps(msgs, i + 1)

IsStepEntry(entry) == entry.either = "B"

====
